---- MODULE Spec2Model ----
(***************************************************************************)
(* Event canister (icp_rust_boilerplate_backend/src/lib.rs): a stable map  *)
(* of Event records keyed by an id drawn from a stable counter cell, with  *)
(* five entry points (get, create, update, attend, delete).  Every entry   *)
(* point runs to completion before the next one starts, so each is one     *)
(* action.  A Rust panic (Option::unwrap on None) ends the call before any *)
(* write and is recorded as the outcome "Panic".  The variable ret holds   *)
(* the operation and the result of the last call.                          *)
(*                                                                         *)
(* Spec is the canister as deployed: calls are serialized.  SpecCreateRace *)
(* and SpecAttendRace drop that guarantee for two calls (the Racers): the  *)
(* statements of create_event, resp. attend_event, run as two steps, the   *)
(* read and the write, and the two calls may interleave.  Every other call *)
(* still runs as a whole, while no racer is between its two steps.         *)
(***************************************************************************)
EXTENDS Integers, Sequences, FiniteSets, TLC

\* ---------------------------------------------------------------- bounds
\* create_event is enabled while the counter is below MaxId
MaxId == 2
\* the clock of time() runs over 0..MaxTime
MaxTime == 1
\* the callers make at most MaxCalls calls in a run
MaxCalls == 5

Callers == {"A", "B"}

\* the two calls that are not serialized in the race specifications
Racers == {"p", "q"}

\* EventPayload values (lib.rs:68-73); the two differ in every field
Payloads ==
  { [event_description |-> "d1", event_title |-> "t1",
     event_location |-> "l1", event_card_imgurl |-> "u1"],
    [event_description |-> "d2", event_title |-> "t2",
     event_location |-> "l2", event_card_imgurl |-> "u2"] }

\* ids a caller may pass: every id that can be allocated, and one that cannot
Ids == 0..MaxId

VARIABLES
  counter,   \* ID_COUNTER: the value held by the stable cell
  storage,   \* STORAGE: function from the stored ids to Event records
  now,       \* the value time() returns
  ret,       \* what the last call returned
  created,   \* history: ids returned by create_event, in call order
  deleted,   \* history: ids removed by delete_event
  updated,   \* history: ids on which an update_event succeeded
  ncalls,    \* history: number of calls made so far
  pc,        \* per racer: the position of its call
  loc        \* per racer: the local variables of its call

vars == <<counter, storage, now, ret, created, deleted, updated, ncalls, pc, loc>>

\* ------------------------------------------------------------ data types
\* Option<T>: None is the empty sequence, Some(x) a one-element sequence
None == <<>>
Some(x) == <<x>>

\* Error::NotFound { msg }
ErrNotFound(op, msg) ==
  [op |-> op, kind |-> "NotFound", event |-> None, msg |-> msg, caller |-> None]

\* Error::NotAuthorized { msg, caller }
ErrNotAuthorized(op, msg, c) ==
  [op |-> op, kind |-> "NotAuthorized", event |-> None, msg |-> msg,
   caller |-> Some(c)]

\* Result::Ok(event) / Option::Some(event)
Ok(op, event) ==
  [op |-> op, kind |-> "Ok", event |-> Some(event), msg |-> <<>>, caller |-> None]

\* Option::unwrap on None: the call panics
Panic(op) ==
  [op |-> op, kind |-> "Panic", event |-> None, msg |-> <<>>, caller |-> None]

\* ------------------------------------------------------ stable structures
\* Cell::set(v): stores v and returns the value the cell held before
IdCellSetReturnsNew(current_value, v) == [value |-> v, old |-> v]
IdCellSetKeepsValue(current_value, v) == [value |-> current_value, old |-> current_value]
IdCellSet(current_value, v) == [value |-> v, old |-> current_value]

\* StableBTreeMap::get
_get_eventNone(s, id) == None
_get_event(s, id) == IF id \in DOMAIN s THEN Some(s[id]) ELSE None

\* StableBTreeMap::insert(event.id, event.clone())
do_insertNextKey(s, event) ==
  [i \in (DOMAIN s) \cup {event.id + 1} |-> IF i = event.id + 1 THEN event ELSE s[i]]
do_insert(s, event) ==
  [i \in (DOMAIN s) \cup {event.id} |-> IF i = event.id THEN event ELSE s[i]]

\* StableBTreeMap::remove: the map without the key, and the removed value
StorageRemoveKeeps(s, id) == [map |-> s, removed |-> _get_event(s, id)]
StorageRemove(s, id) ==
  [map |-> [i \in (DOMAIN s) \ {id} |-> s[i]], removed |-> _get_event(s, id)]

\* ------------------------------------------------------------- helpers
_check_if_ownerAlways(event, c) == TRUE
_check_if_owner(event, c) == IF event.owner # c THEN FALSE ELSE TRUE

\* Vec::contains
ContainsNever(attendees, a) == FALSE
Contains(attendees, a) == \E i \in 1..Len(attendees) : attendees[i] = a

\* the Event literal of create_event
NewEventCallerAttends(id, payload, c, t) ==
  [id |-> id,
   event_description |-> payload.event_description,
   owner |-> c,
   event_title |-> payload.event_title,
   event_location |-> payload.event_location,
   event_card_imgurl |-> payload.event_card_imgurl,
   attendees |-> <<c>>,
   created_at |-> t,
   updated_at |-> None]
NewEvent(id, payload, c, t) ==
  [id |-> id,
   event_description |-> payload.event_description,
   owner |-> c,
   event_title |-> payload.event_title,
   event_location |-> payload.event_location,
   event_card_imgurl |-> payload.event_card_imgurl,
   attendees |-> <<>>,
   created_at |-> t,
   updated_at |-> None]

\* the field assignments of update_event
UpdatedEventClearsAttendees(event, payload, t) ==
  [event EXCEPT !.event_description = payload.event_description,
                !.event_title = payload.event_title,
                !.event_location = payload.event_location,
                !.event_card_imgurl = payload.event_card_imgurl,
                !.attendees = <<>>,
                !.updated_at = Some(t)]
UpdatedEventResetsCreatedAt(event, payload, t) ==
  [event EXCEPT !.event_description = payload.event_description,
                !.event_title = payload.event_title,
                !.event_location = payload.event_location,
                !.event_card_imgurl = payload.event_card_imgurl,
                !.created_at = t,
                !.updated_at = Some(t)]
UpdatedEvent(event, payload, t) ==
  [event EXCEPT !.event_description = payload.event_description,
                !.event_title = payload.event_title,
                !.event_location = payload.event_location,
                !.event_card_imgurl = payload.event_card_imgurl,
                !.updated_at = Some(t)]

\* attendees.push(attendee); event.attendees = attendees
AttendedEventPrepends(event, attendee) ==
  [event EXCEPT !.attendees = <<attendee>> \o @]
AttendedEventTouchesUpdatedAt(event, attendee) ==
  [event EXCEPT !.attendees = Append(@, attendee),
                !.updated_at = Some(event.created_at)]
AttendedEvent(event, attendee) ==
  [event EXCEPT !.attendees = Append(@, attendee)]

\* ---------------------------------------------------------------- Init
Init ==
  /\ counter = 0
  /\ storage = <<>>
  /\ now = 0
  /\ ret = [op |-> "init", kind |-> "None", event |-> None, msg |-> <<>>,
            caller |-> None]
  /\ created = <<>>
  /\ deleted = {}
  /\ updated = {}
  /\ ncalls = 0
  /\ pc = [r \in Racers |-> "idle"]
  /\ loc = [r \in Racers |-> <<>>]

\* -------------------------------------------------------------- actions
\* #[ic_cdk::query] get_event
get_event(id) ==
  /\ ncalls < MaxCalls
  /\ ncalls' = ncalls + 1
  /\ ret' = IF _get_event(storage, id) # None
              THEN Ok("get_event", _get_event(storage, id)[1])
              ELSE ErrNotFound("get_event", <<"Event with id=", id, " not found">>)
  /\ UNCHANGED <<counter, storage, now, created, deleted, updated, pc, loc>>

\* #[ic_cdk::update] create_event
create_event(c, payload) ==
  /\ counter < MaxId
  /\ LET current_value == counter
         cell == IdCellSet(current_value, current_value + 1)
         id == cell.old
         event == NewEvent(id, payload, c, now)
     IN /\ counter' = cell.value
        /\ storage' = do_insert(storage, event)
        /\ ret' = Ok("create_event", event)
        /\ created' = Append(created, event.id)
  /\ ncalls < MaxCalls
  /\ ncalls' = ncalls + 1
  /\ UNCHANGED <<now, deleted, updated, pc, loc>>

\* #[ic_cdk::update] update_event
update_event(c, id, payload) ==
  /\ ncalls < MaxCalls
  /\ ncalls' = ncalls + 1
  /\ IF _get_event(storage, id) = None
       THEN \* _get_event(&id).unwrap() panics
            /\ ret' = Panic("update_event")
            /\ UNCHANGED <<storage, updated>>
       ELSE IF ~_check_if_owner(_get_event(storage, id)[1], c)
         THEN /\ ret' = ErrNotAuthorized("update_event",
                          <<"You're not the owner of the event with id=", id>>, c)
              /\ UNCHANGED <<storage, updated>>
         ELSE IF _get_event(storage, id) # None
           THEN LET event == UpdatedEvent(_get_event(storage, id)[1], payload, now)
                IN /\ storage' = do_insert(storage, event)
                   /\ ret' = Ok("update_event", event)
                   /\ updated' = updated \cup {id}
           ELSE /\ ret' = ErrNotFound("update_event",
                            <<"couldn't update an event with id=", id,
                              ". event not found">>)
                /\ UNCHANGED <<storage, updated>>
  /\ UNCHANGED <<counter, now, created, deleted, pc, loc>>

\* #[ic_cdk::update] attend_event
attend_event(c, id) ==
  /\ ncalls < MaxCalls
  /\ ncalls' = ncalls + 1
  /\ IF _get_event(storage, id) # None
       THEN LET event == _get_event(storage, id)[1]
                attendee == c
                attendees == event.attendees
            IN IF Contains(attendees, attendee)
                 THEN /\ ret' = ErrNotFound("attend_event",
                                  <<"You are already an attendee">>)
                      /\ UNCHANGED storage
                 ELSE /\ storage' = do_insert(storage, AttendedEvent(event, attendee))
                      /\ ret' = Ok("attend_event", AttendedEvent(event, attendee))
       ELSE /\ ret' = ErrNotFound("attend_event",
                        <<"Couldn't update an event with id=", id,
                          ". Event not found">>)
            /\ UNCHANGED storage
  /\ UNCHANGED <<counter, now, created, deleted, updated, pc, loc>>

\* #[ic_cdk::update] delete_event
delete_eventRemovesFirst(c, id) ==
  /\ ncalls < MaxCalls
  /\ ncalls' = ncalls + 1
  /\ IF _get_event(storage, id) = None
       THEN /\ ret' = Panic("delete_event")
            /\ UNCHANGED <<storage, deleted>>
       ELSE LET r == StorageRemove(storage, id)
            IN /\ storage' = r.map
               /\ deleted' = deleted \cup {id}
               /\ IF ~_check_if_owner(r.removed[1], c)
                    THEN ret' = ErrNotAuthorized("delete_event",
                                  <<"You're not the owner of the event with id=", id>>, c)
                    ELSE ret' = Ok("delete_event", r.removed[1])
  /\ UNCHANGED <<counter, now, created, updated, pc, loc>>
delete_event(c, id) ==
  /\ ncalls < MaxCalls
  /\ ncalls' = ncalls + 1
  /\ IF _get_event(storage, id) = None
       THEN \* _get_event(&id).unwrap() panics
            /\ ret' = Panic("delete_event")
            /\ UNCHANGED <<storage, deleted>>
       ELSE IF ~_check_if_owner(_get_event(storage, id)[1], c)
         THEN /\ ret' = ErrNotAuthorized("delete_event",
                          <<"You're not the owner of the event with id=", id>>, c)
              /\ UNCHANGED <<storage, deleted>>
         ELSE LET r == StorageRemove(storage, id)
              IN /\ storage' = r.map
                 /\ IF r.removed # None
                      THEN /\ ret' = Ok("delete_event", r.removed[1])
                           /\ deleted' = deleted \cup {id}
                      ELSE /\ ret' = ErrNotFound("delete_event",
                                       <<"couldn't delete an event with id=", id,
                                         ". To-do not found.">>)
                           /\ UNCHANGED deleted
  /\ UNCHANGED <<counter, now, created, updated, pc, loc>>

\* ic_cdk::api::time() advances between calls
Tick ==
  /\ now < MaxTime
  /\ now' = now + 1
  /\ UNCHANGED <<counter, storage, ret, created, deleted, updated, ncalls, pc, loc>>

Next ==
  \/ \E id \in Ids : get_event(id)
  \/ \E c \in Callers, payload \in Payloads : create_event(c, payload)
  \/ \E c \in Callers, id \in Ids, payload \in Payloads : update_event(c, id, payload)
  \/ \E c \in Callers, id \in Ids : attend_event(c, id)
  \/ \E c \in Callers, id \in Ids : delete_event(c, id)
  \/ Tick

Spec == Init /\ [][Next]_vars

\* ------------------------------------------------- calls not serialized
\* the racers are interchangeable: "q" makes its call after "p" has begun
MayBegin(r) == pc[r] = "idle" /\ (r = "q" => pc["p"] # "idle")

\* no racer is between the read and the write of its call
Quiescent == \A r \in Racers : pc[r] \in {"idle", "create_done", "attend_done"}

\* the calls that run as a whole
Serial ==
  /\ Quiescent
  /\ Next

\* create_event, first step: let current_value = *counter.borrow().get()
CreateRead(r, c, payload) ==
  /\ MayBegin(r)
  /\ counter < MaxId
  /\ ncalls < MaxCalls
  /\ ncalls' = ncalls + 1
  /\ loc' = [loc EXCEPT ![r] = [caller |-> c, payload |-> payload,
                                current_value |-> counter]]
  /\ pc' = [pc EXCEPT ![r] = "create_read"]
  /\ UNCHANGED <<counter, storage, now, ret, created, deleted, updated>>

\* create_event, second step: counter.borrow_mut().set(current_value + 1),
\* then the Event literal, do_insert and the return
CreateWrite(r) ==
  /\ pc[r] = "create_read"
  /\ LET cell == IdCellSet(counter, loc[r].current_value + 1)
         id == cell.old
         event == NewEvent(id, loc[r].payload, loc[r].caller, now)
     IN /\ counter' = cell.value
        /\ storage' = do_insert(storage, event)
        /\ ret' = Ok("create_event", event)
        /\ created' = Append(created, event.id)
        /\ loc' = [loc EXCEPT ![r] = [current_value |-> loc[r].current_value,
                                      id |-> id]]
  /\ pc' = [pc EXCEPT ![r] = "create_done"]
  /\ UNCHANGED <<now, deleted, updated, ncalls>>

NextCreateRace ==
  \/ Serial
  \/ \E r \in Racers, c \in Callers, payload \in Payloads : CreateRead(r, c, payload)
  \/ \E r \in Racers : CreateWrite(r)

SpecCreateRace == Init /\ [][NextCreateRace]_vars

\* attend_event, first step: the lookup and the membership check
AttendCheck(r, c, id) ==
  /\ MayBegin(r)
  /\ ncalls < MaxCalls
  /\ ncalls' = ncalls + 1
  /\ IF _get_event(storage, id) # None
       THEN LET event == _get_event(storage, id)[1]
            IN IF Contains(event.attendees, c)
                 THEN /\ ret' = ErrNotFound("attend_event",
                                  <<"You are already an attendee">>)
                      /\ loc' = [loc EXCEPT ![r] = [caller |-> c, id |-> id,
                                                    ok |-> FALSE]]
                      /\ pc' = [pc EXCEPT ![r] = "attend_done"]
                 ELSE /\ loc' = [loc EXCEPT ![r] = [caller |-> c, id |-> id,
                                                    ok |-> TRUE,
                                                    event |-> event]]
                      /\ pc' = [pc EXCEPT ![r] = "attend_checked"]
                      /\ UNCHANGED ret
       ELSE /\ ret' = ErrNotFound("attend_event",
                        <<"Couldn't update an event with id=", id,
                          ". Event not found">>)
            /\ loc' = [loc EXCEPT ![r] = [caller |-> c, id |-> id, ok |-> FALSE]]
            /\ pc' = [pc EXCEPT ![r] = "attend_done"]
  /\ UNCHANGED <<counter, storage, now, created, deleted, updated>>

\* attendees.push(attendee); event.attendees = attendees; do_insert(&event)
AttendWriteBackToStored(s, event, attendee) ==
  do_insert(s, AttendedEvent(s[event.id], attendee))
AttendWriteBack(s, event, attendee) ==
  do_insert(s, AttendedEvent(event, attendee))

\* attend_event, second step: the push, the write-back and the return
AttendWrite(r) ==
  /\ pc[r] = "attend_checked"
  /\ storage' = AttendWriteBack(storage, loc[r].event, loc[r].caller)
  /\ ret' = Ok("attend_event", AttendedEvent(loc[r].event, loc[r].caller))
  /\ loc' = [loc EXCEPT ![r] = [caller |-> loc[r].caller, id |-> loc[r].id,
                                ok |-> TRUE]]
  /\ pc' = [pc EXCEPT ![r] = "attend_done"]
  /\ UNCHANGED <<counter, now, created, deleted, updated, ncalls>>

NextAttendRace ==
  \/ Serial
  \/ \E r \in Racers, c \in Callers, id \in Ids : AttendCheck(r, c, id)
  \/ \E r \in Racers : AttendWrite(r)

SpecAttendRace == Init /\ [][NextAttendRace]_vars

\* ---------------------------------------------------------------- claims
NotOwner(c, id) == id \in DOMAIN storage /\ storage[id].owner # c
IsOwner(c, id) == id \in DOMAIN storage /\ storage[id].owner = c

\* C1: the k-th successful create_event (k = 0, 1, 2, ...) returns id k,
\* whatever get/update/attend/delete calls come in between.
C1_IdsCountFromZero ==
  /\ \A k \in 1..Len(created) : created[k] = k - 1
  /\ ret.op = "create_event" => ret.event[1].id = Len(created) - 1

\* a second create_event made after record 0 was deleted
C1_Witness ==
  /\ ret.op = "create_event"
  /\ Len(created) = 2
  /\ deleted = {0}

\* C2: update_event on an existing record by a caller who is not its owner
\* returns NotAuthorized and changes neither the store nor the counter.
C2_UpdateNotOwner ==
  [][\A c \in Callers, id \in Ids, p \in Payloads :
       (NotOwner(c, id) /\ update_event(c, id, p))
         => /\ ret'.kind = "NotAuthorized"
            /\ storage' = storage
            /\ counter' = counter]_vars

C2_Witness ==
  /\ ret.op = "update_event"
  /\ ret.kind = "NotAuthorized"

\* C3: delete_event on an existing record by a caller who is not its owner
\* returns NotAuthorized, and get_event right after finds the same record.
C3_DeleteNotOwner ==
  [][\A c \in Callers, id \in Ids :
       (NotOwner(c, id) /\ delete_event(c, id))
         => /\ ret'.kind = "NotAuthorized"
            /\ id \in DOMAIN storage'
            /\ _get_event(storage', id) = Some(storage[id])
            /\ storage' = storage]_vars

C3_Witness ==
  /\ ret.op = "delete_event"
  /\ ret.kind = "NotAuthorized"
  /\ deleted = {}

\* C4: update_event with an id that is not in the store returns NotFound
\* to every caller, without a crash, and changes neither store nor counter.
C4_UpdateAbsentNotFound ==
  [][\A c \in Callers, id \in Ids, p \in Payloads :
       (id \notin DOMAIN storage /\ update_event(c, id, p))
         => /\ ret'.kind = "NotFound"
            /\ storage' = storage
            /\ counter' = counter]_vars

\* C5: delete_event with an id that is not in the store returns NotFound
\* to every caller, without a crash, and changes neither store nor counter.
C5_DeleteAbsentNotFound ==
  [][\A c \in Callers, id \in Ids :
       (id \notin DOMAIN storage /\ delete_event(c, id))
         => /\ ret'.kind = "NotFound"
            /\ storage' = storage
            /\ counter' = counter]_vars

\* C6: update_event by the owner succeeds, sets the four mutable fields to
\* the payload's and updated_at to the current time, and leaves id, owner,
\* created_at, attendees, every other record and the counter as they were.
C6_UpdateByOwner ==
  [][\A c \in Callers, id \in Ids, p \in Payloads :
       (IsOwner(c, id) /\ update_event(c, id, p))
         => /\ ret'.kind = "Ok"
            /\ DOMAIN storage' = DOMAIN storage
            /\ storage'[id].event_title = p.event_title
            /\ storage'[id].event_description = p.event_description
            /\ storage'[id].event_location = p.event_location
            /\ storage'[id].event_card_imgurl = p.event_card_imgurl
            /\ storage'[id].updated_at = Some(now)
            /\ storage'[id].id = storage[id].id
            /\ storage'[id].owner = storage[id].owner
            /\ storage'[id].created_at = storage[id].created_at
            /\ storage'[id].attendees = storage[id].attendees
            /\ \A j \in DOMAIN storage \ {id} : storage'[j] = storage[j]
            /\ counter' = counter]_vars

\* an update, later than the creation, of a record that has an attendee,
\* with a second record in the store
C6_Witness ==
  /\ ret.op = "update_event"
  /\ ret.kind = "Ok"
  /\ ret.event[1].attendees # <<>>
  /\ ret.event[1].updated_at = Some(1)
  /\ ret.event[1].created_at = 0
  /\ Cardinality(DOMAIN storage) = 2

\* C7: delete_event by the owner succeeds, returns the record as stored just
\* before the call and removes it, other records and the counter stay, and
\* every later get_event of that id returns NotFound.
C7_DeleteByOwner ==
  [][/\ \A c \in Callers, id \in Ids :
          (IsOwner(c, id) /\ delete_event(c, id))
            => /\ ret' = Ok("delete_event", storage[id])
               /\ DOMAIN storage' = DOMAIN storage \ {id}
               /\ \A j \in DOMAIN storage' : storage'[j] = storage[j]
               /\ counter' = counter
               /\ id \in deleted'
     /\ \A id \in deleted : get_event(id) => ret'.kind = "NotFound"]_vars

\* the owner deleted one of two records
C7_Witness ==
  /\ ret.op = "delete_event"
  /\ ret.kind = "Ok"
  /\ DOMAIN storage # {}
  /\ ret.event[1].id \notin DOMAIN storage

\* C8: an id returned by create_event is never returned by a later
\* create_event, and the id of a deleted record is never in the store again.
C8_NoReuseNoResurrection ==
  /\ \A i, j \in 1..Len(created) : i # j => created[i] # created[j]
  /\ deleted \cap DOMAIN storage = {}

\* a create_event after a deletion emptied the store
C8_Witness ==
  /\ ret.op = "create_event"
  /\ deleted # {}
  /\ DOMAIN storage = {ret.event[1].id}

\* C9: attend_event on an existing record by a caller not yet among its
\* attendees succeeds, puts the caller exactly once at the end of attendees,
\* keeps the earlier attendees in order, and returns the record with the
\* new list.
C9_AttendAppends ==
  [][\A c \in Callers, id \in Ids :
       (/\ id \in DOMAIN storage
        /\ \A i \in 1..Len(storage[id].attendees) : storage[id].attendees[i] # c
        /\ attend_event(c, id))
         => LET old == storage[id].attendees
                new == storage'[id].attendees
            IN /\ ret'.kind = "Ok"
               /\ Len(new) = Len(old) + 1
               /\ new[Len(new)] = c
               /\ \A i \in 1..Len(old) : new[i] = old[i]
               /\ Cardinality({i \in 1..Len(new) : new[i] = c}) = 1
               /\ ret'.event[1].attendees = new]_vars

\* a second attendee joined
C9_Witness ==
  /\ ret.op = "attend_event"
  /\ ret.kind = "Ok"
  /\ Len(ret.event[1].attendees) = 2

\* C10: attend_event by a caller already among the record's attendees
\* returns the "already an attendee" error and changes neither the record,
\* the rest of the store nor the counter, every time it is called.
C10_AttendTwice ==
  [][\A c \in Callers, id \in Ids :
       (/\ id \in DOMAIN storage
        /\ \E i \in 1..Len(storage[id].attendees) : storage[id].attendees[i] = c
        /\ attend_event(c, id))
         => /\ ret'.kind \notin {"Ok", "Panic"}
            /\ ret'.msg = <<"You are already an attendee">>
            /\ storage' = storage
            /\ counter' = counter]_vars

\* the error was returned for a record that has two attendees
C10_Witness ==
  /\ ret.op = "attend_event"
  /\ ret.msg = <<"You are already an attendee">>
  /\ \E id \in DOMAIN storage : Len(storage[id].attendees) = 2

\* C11: the error kind attend_event returns to a caller who is already an
\* attendee differs from the kind (NotFound) it returns for an absent id.
C11_AlreadyAttendingOwnKind ==
  [][\A c \in Callers, id \in Ids :
       (/\ id \in DOMAIN storage
        /\ \E i \in 1..Len(storage[id].attendees) : storage[id].attendees[i] = c
        /\ attend_event(c, id))
         => /\ ret'.kind # "Ok"
            /\ ret'.kind # "NotFound"]_vars

\* C12: create_event returns a record owned by the caller, with no
\* attendees, no updated_at and the payload's four fields, and a get_event
\* of the returned id right after returns an equal record.
C12_CreateThenGet ==
  [][\A c \in Callers, p \in Payloads :
       create_event(c, p)
         => LET e == ret'.event[1]
            IN /\ ret'.kind = "Ok"
               /\ e.owner = c
               /\ e.attendees = <<>>
               /\ e.updated_at = None
               /\ e.event_title = p.event_title
               /\ e.event_description = p.event_description
               /\ e.event_location = p.event_location
               /\ e.event_card_imgurl = p.event_card_imgurl
               /\ _get_event(storage', e.id) = Some(e)]_vars

\* a second record was created, by the caller who is not the first's owner
C12_Witness ==
  /\ ret.op = "create_event"
  /\ ret.event[1].id = 1
  /\ 0 \in DOMAIN storage
  /\ storage[0].owner # ret.event[1].owner

\* C13: get_event returns NotFound for an id never created or already
\* deleted, the stored record for an id in the store, and changes neither
\* the store nor the counter.
C13_GetEvent ==
  [][\A id \in Ids :
       get_event(id)
         => /\ (id \in deleted \/ \A k \in 1..Len(created) : created[k] # id)
                 => ret'.kind = "NotFound"
            /\ id \in DOMAIN storage => ret' = Ok("get_event", storage[id])
            /\ id \notin DOMAIN storage => ret'.kind = "NotFound"
            /\ storage' = storage
            /\ counter' = counter]_vars

\* get_event of a deleted id while another record is stored
C13_Witness ==
  /\ ret.op = "get_event"
  /\ ret.kind = "NotFound"
  /\ ret.msg[2] \in deleted
  /\ DOMAIN storage # {}

\* C14: in every reachable state no stored record has the same identity
\* twice among its attendees.
C14_NoDuplicateAttendees ==
  \A id \in DOMAIN storage :
    \A i, j \in 1..Len(storage[id].attendees) :
      i # j => storage[id].attendees[i] # storage[id].attendees[j]

\* every caller attends a record and one of them was refused a second time
C14_Witness ==
  /\ \E id \in DOMAIN storage :
       {storage[id].attendees[i] : i \in 1..Len(storage[id].attendees)} = Callers
  /\ ret.op = "attend_event"
  /\ ret.kind # "Ok"

\* C15: while a record is stored, its owner and created_at stay what they
\* were at creation, whatever calls are made; records enter the store only
\* by create_event.
C15_OwnerCreatedAtFixed ==
  [][/\ \A id \in DOMAIN storage \cap DOMAIN storage' :
          /\ storage'[id].owner = storage[id].owner
          /\ storage'[id].created_at = storage[id].created_at
     /\ \A id \in DOMAIN storage' \ DOMAIN storage :
          /\ ret'.op = "create_event"
          /\ storage'[id].created_at = now]_vars

\* a non-owner attended a record that was created at time 0 and updated at 1
C15_Witness ==
  /\ ret.op = "attend_event"
  /\ ret.kind = "Ok"
  /\ ret.event[1].created_at = 0
  /\ ret.event[1].updated_at = Some(1)
  /\ ret.event[1].owner \notin
       {ret.event[1].attendees[i] : i \in 1..Len(ret.event[1].attendees)}

\* C16: attend_event never changes updated_at; a stored record has an
\* updated_at exactly if an update_event by its owner has succeeded on it.
C16_UpdatedAtOnlyByUpdate ==
  [][/\ \A id \in DOMAIN storage' :
          (storage'[id].updated_at # None) <=> (id \in updated')
     /\ \A c \in Callers, id \in Ids :
          (id \in DOMAIN storage /\ attend_event(c, id))
            => storage'[id].updated_at = storage[id].updated_at
     /\ \A c \in Callers, id \in Ids, p \in Payloads :
          (update_event(c, id, p) /\ id \in updated' \ updated)
            => IsOwner(c, id) /\ ret'.kind = "Ok"]_vars

\* two records with attendees, one updated and one never updated
C16_Witness ==
  \E i, j \in DOMAIN storage :
    /\ storage[i].attendees # <<>>
    /\ storage[i].updated_at # None
    /\ storage[j].attendees # <<>>
    /\ storage[j].updated_at = None

\* C17 as stated: when two create_event calls that are not serialized both
\* read the same counter value before either writes, both produce records
\* with the same id.  (With two such calls the outcome is determined by the
\* two reads, so this states the claimed interleaving.)
C17_RacersShareId ==
  \A r1, r2 \in Racers :
    (/\ r1 # r2
     /\ pc[r1] = "create_done"
     /\ pc[r2] = "create_done"
     /\ loc[r1].current_value = loc[r2].current_value)
      => loc[r1].id = loc[r2].id

\* C17 amended: when two create_event calls that are not serialized both
\* read the same counter value v before either writes, they get the
\* different ids v and v + 1 (the id is the value Cell::set returns at the
\* write), and the counter has advanced by one only, so it stays one short
\* of the number of ids handed out.
C17_RaceLosesIncrement ==
  \A r1, r2 \in Racers :
    (/\ r1 # r2
     /\ pc[r1] = "create_done"
     /\ pc[r2] = "create_done"
     /\ loc[r1].current_value = loc[r2].current_value)
      => /\ loc[r1].id # loc[r2].id
         /\ {loc[r1].id, loc[r2].id} =
              {loc[r1].current_value, loc[r1].current_value + 1}
         /\ counter = Len(created) - 1

\* after such a race a further create_event returned an id handed out before
C17_Witness ==
  /\ pc["p"] = "create_done"
  /\ pc["q"] = "create_done"
  /\ loc["p"].current_value = loc["q"].current_value
  /\ ret.op = "create_event"
  /\ Len(created) = 3
  /\ created[3] \in {loc["p"].id, loc["q"].id}

\* the number of times identity c is among the attendees of record id
Occurrences(c, id) ==
  Cardinality({i \in 1..Len(storage[id].attendees) : storage[id].attendees[i] = c})

\* two attend_event calls that both passed the membership check and wrote
\* back, for the same id and the same caller
BothAttended(r1, r2) ==
  /\ r1 # r2
  /\ pc[r1] = "attend_done"
  /\ pc[r2] = "attend_done"
  /\ loc[r1].ok
  /\ loc[r2].ok
  /\ loc[r1].id = loc[r2].id
  /\ loc[r1].caller = loc[r2].caller

\* C18 as stated: when two attend_event calls that are not serialized, for
\* the same id and caller, both find the caller not yet a member and both
\* write back, the stored attendees list contains that caller twice.
C18_RacersDuplicateAttendee ==
  \A r1, r2 \in Racers :
    (BothAttended(r1, r2) /\ loc[r1].id \in DOMAIN storage)
      => Occurrences(loc[r1].caller, loc[r1].id) >= 2

\* C18 amended: when two attend_event calls that are not serialized, for the
\* same id and caller, both find the caller not yet a member and both write
\* back, each writes its own copy of the record with the caller appended
\* once; the second write replaces the first, the stored list contains the
\* caller once, and no stored list has a duplicate.
C18_RaceOverwrites ==
  /\ \A r1, r2 \in Racers :
       (BothAttended(r1, r2) /\ loc[r1].id \in DOMAIN storage)
         => Occurrences(loc[r1].caller, loc[r1].id) = 1
  /\ \A id \in DOMAIN storage, c \in Callers : Occurrences(c, id) <= 1

\* both calls returned Ok and the record holds the caller once
C18_Witness ==
  /\ BothAttended("p", "q")
  /\ ret.op = "attend_event"
  /\ ret.kind = "Ok"
  /\ loc["p"].id \in DOMAIN storage
  /\ storage[loc["p"].id].attendees = <<loc["p"].caller>>

\* C19: every record is stored under its own id, every stored id is below
\* the counter, and the counter never decreases.
C19_KeysAndCounter ==
  [][/\ \A id \in DOMAIN storage' :
          /\ storage'[id].id = id
          /\ id < counter'
     /\ counter' >= counter]_vars

\* the store holds the record of the highest id after a lower one was deleted
C19_Witness ==
  /\ counter = 2
  /\ DOMAIN storage = {1}
  /\ storage[1].id = 1
  /\ ret.op = "delete_event"

\* C20: a successful update_event or attend_event returns the record as it
\* is stored after the call, and a call that does not succeed leaves the
\* store and the counter as they were.
C20_ReturnIsStoredFailureIsNoop ==
  [][ncalls' # ncalls
       => /\ (ret'.op \in {"update_event", "attend_event"} /\ ret'.kind = "Ok")
               => _get_event(storage', ret'.event[1].id) = ret'.event
          /\ ret'.kind # "Ok" => (storage' = storage /\ counter' = counter)]_vars

\* a refused delete_event with two records in the store
C20_Witness ==
  /\ ret.op = "delete_event"
  /\ ret.kind = "NotAuthorized"
  /\ Cardinality(DOMAIN storage) = 2

====
